---------------------------- MODULE Spec2Model ----------------------------
(***************************************************************************)
(* cosmicterm: the terminal engine (src/src/terminal.rs) and the pty       *)
(* session (src/src/pty.rs).                                               *)
(*                                                                         *)
(* A Rust String is modelled as the sequence of its UTF-8 bytes (0..255);  *)
(* a char is its Unicode scalar value.  Character operations (chars(),     *)
(* char_indices(), take, skip) are computed on the bytes, as Rust does.    *)
(***************************************************************************)
EXTENDS Integers, Sequences, FiniteSets

VARIABLES
    lines,        \* TerminalInner.lines: VecDeque<String>
    cursor_x,     \* TerminalInner.cursor_x
    cursor_y,     \* TerminalInner.cursor_y
    size,         \* TerminalInner.size: Option<Size>
    dirty,        \* TerminalInner.dirty
    pty_size,     \* the window size last forwarded to the pty by resize
    writer_q,     \* payloads sent on the writer channel and not yet received
    writer_rx,    \* TRUE while the writer thread (owner of the only Receiver) lives
    pty_in,       \* payloads the writer thread has written to the pty and flushed
    panic,        \* "none", or the panic that poisoned the engine mutex
    text,         \* the String returned by the last as_text() call
    last,         \* the last operation and its arguments
    steps,        \* operations performed so far
    stream,       \* the bytes the pty master will deliver to the reader
    rpos,         \* how many bytes of stream the reader has read
    leftover,     \* start_reader: leftover
    reader_q,     \* chunks sent on the reader channel and not yet received
    emitted,      \* every chunk the reader has sent, in order
    reader_pc,    \* "read" or "done" (start_reader's loop)
    lock,         \* holder of the engine mutex: "free", "feeder"
    chunk,        \* events of the chunk the feeder is feeding, not yet applied
    boundary,     \* engine state at the last boundary between whole operations
    cur,          \* the (cursor_x, cursor_y) pair returned by the last cursor() call
    parser,       \* TerminalInner.parser: the tokenizer state between feed_bytes calls
    input,        \* a byte sequence to be fed to the engine in pieces
    fed,          \* how many bytes of input have been fed
    feeder_pc,    \* "run" while the feeder thread loops over reader.iter(), then "done"
    consumed      \* every chunk the feeder has fed, in order

vars == << lines, cursor_x, cursor_y, size, dirty, pty_size, writer_q, writer_rx,
           pty_in, panic, text, last, steps, stream, rpos, leftover, reader_q,
           emitted, reader_pc, lock, chunk, boundary, cur, parser, input, fed,
           feeder_pc, consumed >>

engineVars == << lines, cursor_x, cursor_y, size, dirty, pty_size >>
writerVars == << writer_q, writer_rx, pty_in >>
readerVars == << stream, rpos, leftover, reader_q, emitted, reader_pc >>
lockVars   == << lock, chunk, boundary >>
feedVars   == << parser, input, fed, feeder_pc, consumed >>

---------------------------------------------------------------------------
(* Program constants *)

MAX_LINES == 1000
BUF_SIZE == 4096

(* Bounds of the model *)

MaxEvents == 4
MaxStream == 4
MaxChunk == 2
MaxFeed == 4

---------------------------------------------------------------------------
(* Rust primitives *)

None == [none |-> TRUE]
Some(v) == [some |-> v]
IsSome(o) == "some" \in DOMAIN o

Max(a, b) == IF a >= b THEN a ELSE b
Min(a, b) == IF a <= b THEN a ELSE b
\* usize::saturating_sub
SatSub(a, b) == IF a >= b THEN a - b ELSE 0
\* usize::saturating_add: a cursor plus a u16 count stays far below usize::MAX
SatAdd(a, b) == a + b

Repeat(v, n) == [i \in 1..n |-> v]

RECURSIVE Concat(_)
Concat(ss) == IF ss = << >> THEN << >> ELSE Head(ss) \o Concat(Tail(ss))

\* [String].join(sep)
RECURSIVE Join(_, _)
Join(ss, sep) ==
    IF ss = << >> THEN << >>
    ELSE IF Len(ss) = 1 THEN ss[1]
    ELSE ss[1] \o sep \o Join(Tail(ss), sep)

\* format!("{}", n) for an unsigned integer: its decimal digits as ASCII bytes
RECURSIVE Decimal(_)
Decimal(n) == IF n < 10 THEN << 48 + n >> ELSE Append(Decimal(n \div 10), 48 + (n % 10))

\* char::to_string / String::push: the UTF-8 encoding of a scalar value
Encode(c) ==
    IF c < 128 THEN << c >>
    ELSE IF c < 2048 THEN << 192 + (c \div 64), 128 + (c % 64) >>
    ELSE IF c < 65536 THEN << 224 + (c \div 4096), 128 + ((c \div 64) % 64), 128 + (c % 64) >>
    ELSE << 240 + (c \div 262144), 128 + ((c \div 4096) % 64),
            128 + ((c \div 64) % 64), 128 + (c % 64) >>

\* a UTF-8 continuation byte (10xxxxxx)
IsCont(b) == b \div 64 = 2

\* the 1-based byte positions at which a char of s starts (char_indices)
CharStarts(s) == { i \in 1..Len(s) : ~IsCont(s[i]) }

\* s.chars().count()
CharCount(s) == Cardinality(CharStarts(s))

\* s.char_indices().nth(k).map(|(i, _)| i): the 0-based byte offset of char k, or None
CharIndex(s, k) ==
    IF k >= CharCount(s) THEN None
    ELSE Some((CHOOSE i \in CharStarts(s) :
                  Cardinality({ j \in CharStarts(s) : j < i }) = k) - 1)

\* s.chars().take(n).collect::<String>()
TakeChars(s, n) ==
    LET at == CharIndex(s, n)
    IN IF IsSome(at) THEN SubSeq(s, 1, at.some) ELSE s

\* s.chars().skip(n).collect::<String>()
SkipChars(s, n) ==
    LET at == CharIndex(s, n)
    IN IF IsSome(at) THEN SubSeq(s, at.some + 1, Len(s)) ELSE << >>

\* s.replace_range(start..end, with), byte offsets
ReplaceRange(s, start, end, with) ==
    SubSeq(s, 1, start) \o with \o SubSeq(s, end + 1, Len(s))

---------------------------------------------------------------------------
(* The screen engine: TerminalInner and its vte::Perform callbacks.  Each  *)
(* callback is an operator from the engine state before the call to the    *)
(* engine state after it:                                                  *)
(*   [lines, x, y, dirty, q, panic]                                        *)
(* where q is the writer channel and panic names the panic the call ended  *)
(* in ("none" when it returned).                                           *)

Engine == [lines |-> lines, x |-> cursor_x, y |-> cursor_y, dirty |-> dirty,
           q |-> writer_q, panic |-> panic]

\* TerminalInner::new, with the writer channel of a fresh session
EngineNew == [lines |-> << >>, x |-> 0, y |-> 0, dirty |-> FALSE, q |-> << >>,
              panic |-> "none"]

\* Parser::new(): the tokenizer in its ground state.  state is the state of the
\* escape-sequence automaton, raw the parameter text collected so far (as VteParams
\* reads it), partial the bytes of a UTF-8 character whose end has not arrived.
ParserNew == [state |-> "ground", raw |-> << >>, partial |-> << >>]

\* TerminalInner::write: the payload is sent on the writer channel; send() fails,
\* and expect() panics, once the writer thread has dropped the only Receiver.
WriteResult(e, rx, data) ==
    IF data = << >> THEN e
    ELSE LET command == IF data = << 8 >> THEN << 127 >> ELSE data
         IN IF rx THEN [e EXCEPT !.q = Append(e.q, command)]
            ELSE [e EXCEPT !.panic = "send"]

\* TerminalInner::move_cursor: lines[cursor_y] is indexed after the row clamp, which
\* leaves row 0 when the buffer is empty: VecDeque's Index panics there.
move_cursor(e, x, y) ==
    LET y1 == IF y >= Len(e.lines) THEN SatSub(Len(e.lines), 1) ELSE y
    IN IF y1 >= Len(e.lines)
       THEN [e EXCEPT !.x = x, !.y = y1, !.panic = "index"]
       ELSE LET count == CharCount(e.lines[y1 + 1])
            IN [e EXCEPT !.x = IF x > count THEN count ELSE x, !.y = y1]

\* the column is used as a byte offset instead of a character offset
print_byte_offsets(e, c) ==
    LET ext == IF e.y >= Len(e.lines)
               THEN e.lines \o Repeat(<< >>, e.y + 1 - Len(e.lines))
               ELSE e.lines
        line == ext[e.y + 1]
        padded == IF e.x > Len(line) THEN line \o Repeat(32, e.x - Len(line)) ELSE line
        written == IF e.x = Len(padded) THEN padded \o Encode(c)
                   ELSE ReplaceRange(padded, e.x, e.x + 1, Encode(c))
    IN [e EXCEPT !.lines = [ext EXCEPT ![e.y + 1] = written],
                 !.x = e.x + 1,
                 !.dirty = TRUE]

\* Perform::print
print(e, c) ==
    LET ext == IF e.y >= Len(e.lines)
               THEN e.lines \o Repeat(<< >>, e.y + 1 - Len(e.lines))
               ELSE e.lines
        line == ext[e.y + 1]
        char_count == CharCount(line)
        padded == IF e.x > char_count THEN line \o Repeat(32, e.x - char_count) ELSE line
        start == CharIndex(padded, e.x)
        next == CharIndex(padded, e.x + 1)
        end == IF IsSome(next) THEN next.some ELSE Len(padded)
        written == IF e.x = CharCount(padded) THEN padded \o Encode(c)
                   ELSE IF IsSome(start)
                        THEN ReplaceRange(padded, start.some, end, Encode(c))
                        ELSE padded \o Encode(c)
    IN [e EXCEPT !.lines = [ext EXCEPT ![e.y + 1] = written],
                 !.x = e.x + 1,
                 !.dirty = TRUE]

\* Perform::execute
execute(e, byte) ==
    LET moved ==
          IF byte = 10
          THEN IF e.y + 1 >= MAX_LINES
               THEN [e EXCEPT !.x = 0, !.y = MAX_LINES - 1,
                              !.lines = IF e.lines = << >> THEN << >> ELSE Tail(e.lines)]
               ELSE [e EXCEPT !.x = 0, !.y = e.y + 1]
          ELSE IF byte = 13 THEN [e EXCEPT !.x = 0]
          ELSE IF byte = 8 THEN [e EXCEPT !.x = IF e.x > 0 THEN e.x - 1 ELSE 0]
          ELSE e
    IN [moved EXCEPT !.dirty = TRUE]

\* an operating-system command empties the buffer
osc_dispatch_erases(e) == [e EXCEPT !.lines = << >>]

\* Perform::osc_dispatch
osc_dispatch(e) == e

\* The parameters vte hands to csi_dispatch for the parameter text of a sequence.
\* raw is the text as written: a sequence of parameters separated by ';', each a
\* sequence of ':'-separated subparameters, each a number or Blank.  The tokenizer
\* pushes the parameter it is accumulating (0 when no digit was seen) when the final
\* byte arrives, so the handler always receives at least one parameter.
Blank == -1
U16(n) == IF n > 65535 THEN 65535 ELSE n
VteParams(raw) ==
    IF raw = << >> THEN << << 0 >> >>
    ELSE [i \in 1..Len(raw) |->
            [j \in 1..Len(raw[i]) |-> IF raw[i][j] = Blank THEN 0 ELSE U16(raw[i][j])]]

\* params.get(i).and_then(|p| p.first()).copied().unwrap_or(d), i 0-based
FirstOr(params, i, d) ==
    IF i < Len(params) /\ Len(params[i + 1]) > 0 THEN params[i + 1][1] ELSE d

\* params[0].get(j).copied().unwrap_or(d), j 0-based
SubOr(params, j, d) ==
    IF j < Len(params[1]) THEN params[1][j + 1] ELSE d

\* format!("\x1b[{};{}R", row, col).as_bytes()
Report(row, col) == << 27, 91 >> \o Decimal(row) \o << 59 >> \o Decimal(col) \o << 82 >>

\* the buffer is emptied but the cursor stays where it was
clear_all_keeps_cursor(e) == [e EXCEPT !.lines = << >>]

\* csi_dispatch 'J', parameter 2 or 3
clear_all(e) == [e EXCEPT !.lines = << >>, !.x = 0, !.y = 0]

\* csi_dispatch 'J'
erase_display(e, param) ==
    IF param = 0
    THEN LET cleared == [i \in 1..Len(e.lines) |->
                            IF i > e.y THEN << >> ELSE e.lines[i]]
             kept == SubSeq(cleared, 1, Min(Len(cleared), e.y + 1))
         IN [e EXCEPT !.lines = IF e.y < Len(kept)
                                THEN [kept EXCEPT ![e.y + 1] = TakeChars(kept[e.y + 1], e.x)]
                                ELSE kept]
    ELSE IF param = 1
    THEN LET cleared == [i \in 1..Len(e.lines) |->
                            IF i <= e.y THEN << >> ELSE e.lines[i]]
         IN [e EXCEPT !.lines = IF e.y < Len(cleared)
                                THEN [cleared EXCEPT ![e.y + 1] =
                                                 SkipChars(cleared[e.y + 1], e.x)]
                                ELSE cleared]
    ELSE IF param = 2 \/ param = 3
    THEN clear_all(e)
    ELSE e

\* mode 2 removes the cursor row from the buffer instead of emptying it
erase_line_removes_row(e, param) ==
    IF e.y >= Len(e.lines) THEN e
    ELSE IF param = 0
    THEN [e EXCEPT !.lines[e.y + 1] = TakeChars(e.lines[e.y + 1], e.x)]
    ELSE IF param = 1
    THEN [e EXCEPT !.lines[e.y + 1] = SkipChars(e.lines[e.y + 1], e.x)]
    ELSE IF param = 2
    THEN [e EXCEPT !.lines = SubSeq(e.lines, 1, e.y) \o SubSeq(e.lines, e.y + 2, Len(e.lines))]
    ELSE e

\* csi_dispatch 'K'
erase_line(e, param) ==
    IF e.y >= Len(e.lines) THEN e
    ELSE IF param = 0
    THEN [e EXCEPT !.lines[e.y + 1] = TakeChars(e.lines[e.y + 1], e.x)]
    ELSE IF param = 1
    THEN [e EXCEPT !.lines[e.y + 1] = SkipChars(e.lines[e.y + 1], e.x)]
    ELSE IF param = 2
    THEN [e EXCEPT !.lines[e.y + 1] = << >>]
    ELSE e

\* csi_dispatch 'n'
status_report(e, rx, params) ==
    IF params = << >> \/ params[1] = << >>
    THEN WriteResult(e, rx, Report(e.y + 1, e.x + 1))
    ELSE WriteResult(e, rx, Report(SubOr(params, 0, 1), SubOr(params, 1, 1)))

\* the one-based parameters are stored as they are
cursor_position_one_based(e, params) ==
    [e EXCEPT !.y = FirstOr(params, 0, 1), !.x = FirstOr(params, 1, 1)]

\* csi_dispatch 'H' | 'f'
cursor_position(e, params) ==
    [e EXCEPT !.y = SatSub(FirstOr(params, 0, 1), 1),
              !.x = SatSub(FirstOr(params, 1, 1), 1)]

\* Perform::csi_dispatch
csi_dispatch(e, rx, params, c) ==
    LET count == Max(1, FirstOr(params, 0, 1))
        done ==
          CASE c \in {"H", "f"} -> cursor_position(e, params)
            [] c = "J" -> erase_display(e, FirstOr(params, 0, 0))
            [] c = "K" -> erase_line(e, FirstOr(params, 0, 0))
            [] c = "n" -> status_report(e, rx, params)
            [] c = "A" -> move_cursor(e, e.x, SatSub(e.y, count))
            [] c = "B" -> move_cursor(e, e.x, SatAdd(e.y, count))
            [] c = "C" -> move_cursor(e, SatAdd(e.x, count), e.y)
            [] c = "D" -> move_cursor(e, SatSub(e.x, count), e.y)
            [] OTHER -> e
    IN IF done.panic = "none" THEN [done EXCEPT !.dirty = TRUE] ELSE done

\* the viewport is not applied: every line of the buffer is returned
as_text_whole_buffer(ls, sz) == Join(ls, << 10 >>)

\* TerminalInner::as_text
as_text(ls, sz) ==
    LET rows == IF IsSome(sz) THEN sz.some.rows ELSE 0
        skip == SatSub(Len(ls), rows)
    IN Join(SubSeq(ls, skip + 1, Len(ls)), << 10 >>)

---------------------------------------------------------------------------
(* Inputs *)

PrintChars == { 97, 233 }                      \* 'a', and the two-byte e-acute
ExecBytes == { 10, 13, 8, 7 }                  \* LF, CR, BS, BEL
OneParam(n) == << << n >> >>
TwoParams(n, m) == << << n >>, << m >> >>
CsiFinals == { "H", "f", "J", "K", "A", "B", "C", "D", "n", "m" }
\* the parameter texts tried with each final character
RawParams(c) ==
    CASE c \in {"H", "f"} -> { << >>, OneParam(2), TwoParams(1, 2), TwoParams(Blank, 3),
                               TwoParams(5, 10), OneParam(MAX_LINES),
                               OneParam(MAX_LINES + 1) }
      [] c = "J" -> { << >>, OneParam(1), OneParam(2), OneParam(3) }
      [] c = "K" -> { << >>, OneParam(1), OneParam(2) }
      [] c = "n" -> { << >>, OneParam(6), TwoParams(5, 10), << << 6, 7 >> >> }
      [] c \in {"A", "B", "C", "D"} -> { << >>, OneParam(0), OneParam(2) }
      [] OTHER -> { << >>, OneParam(1) }
WriteData == { << >>, << 8 >>, << 97 >> }
Sizes == { [cols |-> 80, rows |-> r] : r \in 0..2 }

NoOp == [op |-> "none", fin |-> "", arg |-> 0, params |-> << >>, data |-> << >>]
Op(name) == [NoOp EXCEPT !.op = name]

---------------------------------------------------------------------------
(* State after construction: PtySession::spawn, Terminal::new *)

InitEngine ==
    /\ lines = << >>
    /\ cursor_x = 0
    /\ cursor_y = 0
    /\ size = None
    /\ dirty = FALSE
    /\ pty_size = None
    /\ panic = "none"
    /\ text = << >>
    /\ cur = << 0, 0 >>
    /\ last = NoOp
    /\ steps = 0

InitWriter ==
    /\ writer_q = << >>
    /\ writer_rx = TRUE
    /\ pty_in = << >>

InitReader ==
    /\ rpos = 0
    /\ leftover = << >>
    /\ reader_q = << >>
    /\ emitted = << >>
    /\ reader_pc = "read"

InitLock ==
    /\ lock = "free"
    /\ chunk = << >>
    /\ boundary = [lines |-> << >>, x |-> 0, y |-> 0, size |-> None]

InitFeed ==
    /\ parser = ParserNew
    /\ input = << >>
    /\ fed = 0
    /\ feeder_pc = "run"
    /\ consumed = << >>

\* bytes a pty can deliver: 'a', the two bytes of e-acute (C3 A9), the three bytes
\* of the euro sign (E2 82 AC), E0, which no 82 may follow, and FF, which no UTF-8
\* text contains
StreamBytes == { 97, 195, 169, 224, 226, 130, 172, 255 }
Streams == UNION { [1..n -> StreamBytes] : n \in 0..MaxStream }

InitReaderStream ==
    /\ InitEngine
    /\ InitWriter
    /\ InitReader
    /\ InitLock
    /\ InitFeed
    /\ stream \in Streams

Init ==
    /\ InitEngine
    /\ InitWriter
    /\ InitReader
    /\ InitLock
    /\ InitFeed
    /\ stream = << >>

---------------------------------------------------------------------------
(* Operations on the engine, each under the engine mutex for the whole    *)
(* call.  A thread that panics while it holds the mutex poisons it, and    *)
(* every later lock().expect() panics in turn: no operation acts after.    *)

\* a lock that does not exclude: a caller enters while the feeder holds the mutex
LockNotExclusive == TRUE

\* Mutex::lock succeeds at once only while no thread holds the mutex
LockFree == lock = "free"

\* a caller does not wait for the mutex
UsableWithoutLock == panic = "none" /\ steps < MaxEvents

\* a caller's lock().expect() returns: the mutex is free and not poisoned
Usable == LockFree /\ panic = "none" /\ steps < MaxEvents

\* a whole mutating operation has ended: the state it leaves is a boundary between
\* operations
Completed ==
    boundary' = [lines |-> lines', x |-> cursor_x', y |-> cursor_y', size |-> size']

\* the engine state a callback returned (or panicked in) becomes the state
Store(e) ==
    /\ lines' = e.lines
    /\ cursor_x' = e.x
    /\ cursor_y' = e.y
    /\ dirty' = e.dirty
    /\ writer_q' = e.q
    /\ panic' = e.panic

\* feed_bytes of a chunk that is one printable character
PrintChar(c) ==
    /\ Usable
    /\ Store(print(Engine, c))
    /\ last' = [Op("print") EXCEPT !.arg = c]
    /\ steps' = steps + 1
    /\ UNCHANGED << size, pty_size, writer_rx, pty_in, text, cur, lock, chunk, readerVars, feedVars >>
    /\ Completed

\* feed_bytes of a chunk that is one C0 control byte
Execute(byte) ==
    /\ Usable
    /\ Store(execute(Engine, byte))
    /\ last' = [Op("execute") EXCEPT !.arg = byte]
    /\ steps' = steps + 1
    /\ UNCHANGED << size, pty_size, writer_rx, pty_in, text, cur, lock, chunk, readerVars, feedVars >>
    /\ Completed

\* feed_bytes of a chunk that is one control sequence ESC [ raw c
CsiDispatch(raw, c) ==
    /\ Usable
    /\ Store(csi_dispatch(Engine, writer_rx, VteParams(raw), c))
    /\ last' = [Op("csi") EXCEPT !.fin = c, !.params = raw]
    /\ steps' = steps + 1
    /\ UNCHANGED << size, pty_size, writer_rx, pty_in, text, cur, lock, chunk, readerVars, feedVars >>
    /\ Completed

\* feed_bytes of a chunk that is one operating-system command
OscDispatch ==
    /\ Usable
    /\ Store(osc_dispatch(Engine))
    /\ last' = Op("osc")
    /\ steps' = steps + 1
    /\ UNCHANGED << size, pty_size, writer_rx, pty_in, text, cur, lock, chunk, readerVars, feedVars >>
    /\ Completed

\* Terminal::write
Write(data) ==
    /\ Usable
    /\ Store(WriteResult(Engine, writer_rx, data))
    /\ last' = [Op("write") EXCEPT !.data = data]
    /\ steps' = steps + 1
    /\ UNCHANGED << size, pty_size, writer_rx, pty_in, text, cur, lock, chunk, readerVars, feedVars >>
    /\ Completed

\* PtySession::resize: the pty's reported window size
PtyResize(cols, rows) == Some([cols |-> cols, rows |-> rows])

\* Terminal::resize
Resize(sz) ==
    /\ Usable
    /\ size' = Some(sz)
    /\ pty_size' = PtyResize(sz.cols, sz.rows)
    /\ last' = Op("resize")
    /\ steps' = steps + 1
    /\ UNCHANGED << lines, cursor_x, cursor_y, dirty, panic, writerVars, text,
                    cur, lock, chunk, readerVars, feedVars >>
    /\ Completed

\* Terminal::as_text
AsText ==
    /\ Usable
    /\ text' = as_text(lines, size)
    /\ last' = Op("as_text")
    /\ steps' = steps + 1
    /\ UNCHANGED << engineVars, panic, writerVars, cur, readerVars, lockVars, feedVars >>

\* Terminal::cursor
Cursor ==
    /\ Usable
    /\ cur' = << cursor_x, cursor_y >>
    /\ last' = Op("cursor")
    /\ steps' = steps + 1
    /\ UNCHANGED << engineVars, panic, writerVars, text, readerVars, lockVars, feedVars >>

\* Terminal::clear_dirty
ClearDirty ==
    /\ Usable
    /\ dirty' = FALSE
    /\ last' = Op("clear_dirty")
    /\ steps' = steps + 1
    /\ UNCHANGED << lines, cursor_x, cursor_y, size, pty_size, panic, writerVars, text,
                    cur, lock, chunk, readerVars, feedVars >>
    /\ Completed

---------------------------------------------------------------------------
(* The writer thread: Session::start_writer *)

\* the writer takes the payload enqueued last instead of the one enqueued first
WriterWriteNewestFirst ==
    /\ writer_rx /\ writer_q # << >>
    /\ steps < MaxEvents
    /\ pty_in' = Append(pty_in, writer_q[Len(writer_q)])
    /\ writer_q' = SubSeq(writer_q, 1, Len(writer_q) - 1)
    /\ last' = Op("writer_write")
    /\ steps' = steps + 1
    /\ UNCHANGED << engineVars, writer_rx, panic, text, cur, readerVars, lockVars, feedVars >>

\* recv, write_all and flush of one payload succeed
WriterWrite ==
    /\ writer_rx /\ writer_q # << >>
    /\ steps < MaxEvents
    /\ pty_in' = Append(pty_in, Head(writer_q))
    /\ writer_q' = Tail(writer_q)
    /\ last' = Op("writer_write")
    /\ steps' = steps + 1
    /\ UNCHANGED << engineVars, writer_rx, panic, text, cur, readerVars, lockVars, feedVars >>

\* write_all or flush of the payload fails: the loop breaks, the thread ends and
\* drops the Receiver
WriterFail ==
    /\ writer_rx /\ writer_q # << >>
    /\ steps < MaxEvents
    /\ writer_q' = Tail(writer_q)
    /\ writer_rx' = FALSE
    /\ last' = Op("writer_fail")
    /\ steps' = steps + 1
    /\ UNCHANGED << engineVars, pty_in, panic, text, cur, readerVars, lockVars, feedVars >>

Next ==
    \/ \E c \in PrintChars : PrintChar(c)
    \/ \E b \in ExecBytes : Execute(b)
    \/ \E c \in CsiFinals : \E raw \in RawParams(c) : CsiDispatch(raw, c)
    \/ OscDispatch
    \/ \E data \in WriteData : Write(data)
    \/ \E sz \in Sizes : Resize(sz)
    \/ AsText
    \/ Cursor
    \/ ClearDirty
    \/ WriterWrite
    \/ WriterFail

Spec == Init /\ [][Next]_vars

---------------------------------------------------------------------------
(* Line feeds only: the scrollback cap (execute, b'\n') *)

LineFeed ==
    /\ panic = "none"
    /\ steps < MAX_LINES + 1
    /\ Store(execute(Engine, 10))
    /\ last' = [Op("execute") EXCEPT !.arg = 10]
    /\ steps' = steps + 1
    /\ UNCHANGED << size, pty_size, writer_rx, pty_in, text, cur, lock, chunk, readerVars, feedVars >>
    /\ Completed

NextLF == LineFeed

SpecLF == Init /\ [][NextLF]_vars

---------------------------------------------------------------------------
(* UTF-8 validation: core::str::from_utf8 and Utf8Error *)

\* the width a first byte announces (0: no char starts with it)
Utf8Width(b) ==
    IF b < 128 THEN 1
    ELSE IF b >= 194 /\ b <= 223 THEN 2
    ELSE IF b >= 224 /\ b <= 239 THEN 3
    ELSE IF b >= 240 /\ b <= 244 THEN 4
    ELSE 0

\* the range the second byte of a char must lie in, given its first byte
SecondOk(first, b) ==
    CASE first = 224 -> b >= 160 /\ b <= 191
      [] first = 237 -> b >= 128 /\ b <= 159
      [] first = 240 -> b >= 144 /\ b <= 191
      [] first = 244 -> b >= 128 /\ b <= 143
      [] OTHER -> IsCont(b)

\* how many bytes of s from 0-based offset i on form the start of a well-formed
\* char, and whether they form a whole one: [n, whole, bad], bad when a byte of
\* s contradicts well-formedness (rather than s merely ending early)
CharAt(s, i) ==
    LET w == Utf8Width(s[i + 1])
        have == Len(s) - i
        ok(k) == IF k = 1 THEN SecondOk(s[i + 1], s[i + 2]) ELSE IsCont(s[i + k + 1])
        good == IF w = 0 THEN 0
                ELSE IF \A k \in 1..(Min(w, have) - 1) : ok(k) THEN Min(w, have)
                ELSE (CHOOSE k \in 1..(Min(w, have) - 1) :
                          ~ok(k) /\ \A j \in 1..(k - 1) : ok(j))
    IN [n |-> good,
        whole |-> w > 0 /\ good = w,
        bad |-> w = 0 \/ good < Min(w, have)]

\* Utf8Error::valid_up_to of from_utf8(s), or Len(s) when s is valid
RECURSIVE ValidFrom(_, _)
ValidFrom(s, i) ==
    IF i >= Len(s) THEN i
    ELSE IF CharAt(s, i).whole THEN ValidFrom(s, i + CharAt(s, i).n)
    ELSE i
valid_up_to(s) == ValidFrom(s, 0)
IsUtf8(s) == valid_up_to(s) = Len(s)

\* String::from_utf8_lossy(s).to_string(): s itself when it is valid; otherwise each
\* maximal ill-formed part is replaced by U+FFFD
RECURSIVE from_utf8_lossy(_)
from_utf8_lossy(s) ==
    LET v == valid_up_to(s)
    IN IF v = Len(s) THEN s
       ELSE LET c == CharAt(s, v)
                skip == IF c.bad THEN Max(1, c.n) ELSE Len(s) - v
            IN SubSeq(s, 1, v) \o << 239, 191, 189 >>
                 \o from_utf8_lossy(SubSeq(s, v + skip + 1, Len(s)))

---------------------------------------------------------------------------
(* The tokenizer: vte::Parser::advance, as feed_bytes drives it.  It is    *)
(* modelled for the bytes a pty sends most: printable ASCII, C0 controls,   *)
(* ESC, '[', digits, ';', final bytes, and multi-byte characters.           *)
(* st is [e, p]: the engine the callbacks act on and the tokenizer state.   *)

\* the scalar value of the well-formed UTF-8 character buf
Decode(buf) ==
    IF Len(buf) = 1 THEN buf[1]
    ELSE IF Len(buf) = 2 THEN (buf[1] - 192) * 64 + (buf[2] - 128)
    ELSE IF Len(buf) = 3
    THEN (buf[1] - 224) * 4096 + (buf[2] - 128) * 64 + (buf[3] - 128)
    ELSE (buf[1] - 240) * 262144 + (buf[2] - 128) * 4096 + (buf[3] - 128) * 64
           + (buf[4] - 128)

\* char::REPLACEMENT_CHARACTER
REPLACEMENT == 65533

\* the final byte of a control sequence as the char csi_dispatch matches on
Chr(b) ==
    CASE b = 65 -> "A" [] b = 66 -> "B" [] b = 67 -> "C" [] b = 68 -> "D"
      [] b = 72 -> "H" [] b = 74 -> "J" [] b = 75 -> "K" [] b = 102 -> "f"
      [] b = 110 -> "n" [] OTHER -> "?"

\* a digit d arrives in the parameter text
PushDigit(raw, d) ==
    IF raw = << >> THEN << << d >> >>
    ELSE LET v == raw[Len(raw)][1]
         IN [raw EXCEPT ![Len(raw)] = << IF v = Blank THEN d ELSE U16(10 * v + d) >>]

\* a ';' arrives in the parameter text
NextParam(raw) ==
    IF raw = << >> THEN << << Blank >>, << Blank >> >> ELSE Append(raw, << Blank >>)

\* a byte in the ground state with no character pending
ground_byte(st, b) ==
    IF b = 27 THEN [st EXCEPT !.p.state = "escape"]
    ELSE IF b < 32 THEN [st EXCEPT !.e = execute(st.e, b)]
    ELSE IF b < 128 THEN [st EXCEPT !.e = print(st.e, b)]
    ELSE IF Utf8Width(b) >= 2 THEN [st EXCEPT !.p.partial = << b >>]
    ELSE [st EXCEPT !.e = print(st.e, REPLACEMENT)]

\* a byte while the first bytes of a multi-byte character are pending: the character
\* is printed when it completes; bytes that cannot continue it make the pending part
\* a replacement character and are then read afresh
partial_byte(st, b) ==
    LET buf == Append(st.p.partial, b)
        c == CharAt(buf, 0)
    IN IF c.whole
       THEN [st EXCEPT !.e = print(st.e, Decode(buf)), !.p.partial = << >>]
       ELSE IF c.bad
       THEN ground_byte([st EXCEPT !.e = print(st.e, REPLACEMENT), !.p.partial = << >>], b)
       ELSE [st EXCEPT !.p.partial = buf]

\* a byte after ESC: '[' opens a control sequence, ']' an operating-system command;
\* any other final byte ends an escape sequence, which this engine ignores
\* (esc_dispatch is not overridden)
escape_byte(st, b) ==
    IF b = 27 THEN st
    ELSE IF b < 32 THEN [st EXCEPT !.e = execute(st.e, b)]
    ELSE IF b = 91 THEN [st EXCEPT !.p.state = "csi", !.p.raw = << >>]
    ELSE IF b = 93 THEN [st EXCEPT !.p.state = "osc"]
    ELSE IF b >= 48 /\ b < 127 THEN [st EXCEPT !.p.state = "ground"]
    ELSE st

\* a byte inside an operating-system command: BEL ends it, and so does the ESC of
\* the string terminator ESC \; every other byte belongs to its text
osc_byte(st, b) ==
    IF b = 7 THEN [st EXCEPT !.e = osc_dispatch(st.e), !.p.state = "ground"]
    ELSE IF b = 27 THEN [st EXCEPT !.e = osc_dispatch(st.e), !.p.state = "escape"]
    ELSE st

\* a byte inside a control sequence; the parameter text matters only until the
\* sequence ends (the next '[' clears it), so it is recorded as empty from then on
csi_byte(st, rx, b) ==
    IF b = 27 THEN [st EXCEPT !.p.state = "escape", !.p.raw = << >>]
    ELSE IF b < 32 THEN [st EXCEPT !.e = execute(st.e, b)]
    ELSE IF b >= 48 /\ b <= 57 THEN [st EXCEPT !.p.raw = PushDigit(st.p.raw, b - 48)]
    ELSE IF b = 59 THEN [st EXCEPT !.p.raw = NextParam(st.p.raw)]
    ELSE IF b >= 64 /\ b < 127
    THEN [st EXCEPT !.e = csi_dispatch(st.e, rx, VteParams(st.p.raw), Chr(b)),
                    !.p.state = "ground", !.p.raw = << >>]
    ELSE st

advance_byte(st, rx, b) ==
    IF st.p.partial # << >> THEN partial_byte(st, b)
    ELSE IF st.p.state = "escape" THEN escape_byte(st, b)
    ELSE IF st.p.state = "csi" THEN csi_byte(st, rx, b)
    ELSE IF st.p.state = "osc" THEN osc_byte(st, b)
    ELSE ground_byte(st, b)

\* Parser::advance(performer, bytes): a callback that panics unwinds out of it
RECURSIVE advance(_, _, _)
advance(st, rx, bytes) ==
    IF bytes = << >> \/ st.e.panic # "none" THEN st
    ELSE advance(advance_byte(st, rx, Head(bytes)), rx, Tail(bytes))

\* the tokenizer is not put back: the engine keeps the default one mem::take left
feed_bytes_parser_not_restored(st, rx, bytes) ==
    [e |-> advance(st, rx, bytes).e, p |-> ParserNew]

\* TerminalInner::feed_bytes: the tokenizer is taken out of the engine (which holds
\* Parser::default() meanwhile), advanced over bytes, and put back; a panic in a
\* callback unwinds before it is put back
feed_bytes(st, rx, bytes) ==
    LET done == advance(st, rx, bytes)
    IN [e |-> done.e, p |-> IF done.e.panic = "none" THEN done.p ELSE ParserNew]

\* 'a', C3 A9 (e-acute), LF, ESC, '[', '2', ';', 'J', 'n'
FeedBytes == { 97, 195, 169, 10, 27, 91, 50, 59, 74, 110 }
FeedInputs == UNION { [1..n -> FeedBytes] : n \in 0..MaxFeed }

InitFeedInput ==
    /\ InitEngine
    /\ InitWriter
    /\ InitReader
    /\ InitLock
    /\ stream = << >>
    /\ parser = ParserNew
    /\ fed = 0
    /\ feeder_pc = "run"
    /\ consumed = << >>
    /\ input \in FeedInputs

\* the feeder thread receives the next n bytes of input as one chunk, locks the
\* engine and calls feed_bytes
FeedBytesCall(n) ==
    /\ LockFree
    /\ panic = "none"
    /\ n >= 1 /\ fed + n <= Len(input)
    /\ LET r == feed_bytes([e |-> Engine, p |-> parser], writer_rx,
                           SubSeq(input, fed + 1, fed + n))
       IN Store(r.e) /\ parser' = r.p
    /\ fed' = fed + n
    /\ last' = [Op("feed") EXCEPT !.arg = n]
    /\ UNCHANGED << size, pty_size, writer_rx, pty_in, text, cur, steps, lock, chunk,
                    readerVars, input, feeder_pc, consumed >>
    /\ Completed

NextFeed == \E n \in 1..MaxFeed : FeedBytesCall(n)

SpecFeed == InitFeedInput /\ [][NextFeed]_vars

---------------------------------------------------------------------------
(* The reader thread: Session::start_reader.  The Receiver of its channel  *)
(* is held by the PtySession for the life of the process, so send() does    *)
(* not fail.                                                                *)

\* the bytes after the valid prefix are not kept for the next iteration
decode_drops_suffix(buf) ==
    LET v == valid_up_to(buf)
    IN IF v = Len(buf) THEN [send |-> Some(buf), leftover |-> << >>]
       ELSE IF v > 0
       THEN [send |-> Some(from_utf8_lossy(SubSeq(buf, 1, v))), leftover |-> << >>]
       ELSE [send |-> None, leftover |-> buf]

\* the body of Ok(n): what is sent (None: nothing) and what is kept, for the
\* carry-over extended by the bytes just read
decode(buf) ==
    LET v == valid_up_to(buf)
    IN IF v = Len(buf) THEN [send |-> Some(buf), leftover |-> << >>]
       ELSE IF v > 0
       THEN [send |-> Some(from_utf8_lossy(SubSeq(buf, 1, v))),
             leftover |-> SubSeq(buf, v + 1, Len(buf))]
       ELSE [send |-> None, leftover |-> buf]

\* one iteration whose read returns n bytes
ReaderRead(n) ==
    /\ reader_pc = "read"
    /\ n >= 1 /\ n <= BUF_SIZE /\ rpos + n <= Len(stream)
    /\ LET d == decode(leftover \o SubSeq(stream, rpos + 1, rpos + n))
       IN /\ leftover' = d.leftover
          /\ reader_q' = IF IsSome(d.send) THEN Append(reader_q, d.send.some) ELSE reader_q
          /\ emitted' = IF IsSome(d.send) THEN Append(emitted, d.send.some) ELSE emitted
    /\ rpos' = rpos + n
    /\ UNCHANGED << stream, reader_pc, engineVars, writerVars, panic, text, cur, last,
                    steps, lockVars, feedVars >>

\* read returns Ok(0): end of file
ReaderEof ==
    /\ reader_pc = "read"
    /\ rpos = Len(stream)
    /\ reader_pc' = "done"
    /\ UNCHANGED << stream, rpos, leftover, reader_q, emitted, engineVars, writerVars,
                    panic, text, cur, last, steps, lockVars, feedVars >>

\* read returns Err
ReaderError ==
    /\ reader_pc = "read"
    /\ reader_pc' = "done"
    /\ UNCHANGED << stream, rpos, leftover, reader_q, emitted, engineVars, writerVars,
                    panic, text, cur, last, steps, lockVars, feedVars >>

NextReader ==
    \/ \E n \in 1..MaxStream : ReaderRead(n)
    \/ ReaderEof
    \/ ReaderError

SpecReader == InitReaderStream /\ [][NextReader]_vars

---------------------------------------------------------------------------
(* The feeder thread (Terminal::start_feeding) against caller threads.     *)
(* feed_bytes dispatches the events of a chunk one after the other while   *)
(* the feeder holds the engine mutex.                                      *)

EvPrint(c) == [Op("print") EXCEPT !.arg = c]
EvExecute(b) == [Op("execute") EXCEPT !.arg = b]
EvCsi(raw, c) == [Op("csi") EXCEPT !.fin = c, !.params = raw]
EvOsc == Op("osc")

\* Parser::advance hands each event to the Perform callback it belongs to
Perform(e, rx, ev) ==
    CASE ev.op = "print" -> print(e, ev.arg)
      [] ev.op = "execute" -> execute(e, ev.arg)
      [] ev.op = "csi" -> csi_dispatch(e, rx, VteParams(ev.params), ev.fin)
      [] OTHER -> osc_dispatch(e)

FeedEvents == { EvPrint(97), EvExecute(10), EvCsi(OneParam(2), "J"), EvCsi(<< >>, "n"),
                EvCsi(<< >>, "A") }
FeedChunks == UNION { [1..n -> FeedEvents] : n \in 1..MaxChunk }

\* a chunk is received and the mutex acquired
FeederLock(evs) ==
    /\ LockFree
    /\ panic = "none"
    /\ chunk = << >>
    /\ steps + Len(evs) <= MaxEvents
    /\ lock' = "feeder"
    /\ chunk' = evs
    /\ UNCHANGED << engineVars, writerVars, panic, text, cur, last, steps, boundary,
                    readerVars, feedVars >>

\* feed_bytes dispatches the next event of the chunk; a panic unwinds the thread,
\* which drops the guard and leaves the mutex poisoned
FeederStep ==
    /\ lock = "feeder"
    /\ chunk # << >>
    /\ panic = "none"
    /\ Store(Perform(Engine, writer_rx, Head(chunk)))
    /\ last' = Head(chunk)
    /\ steps' = steps + 1
    /\ chunk' = Tail(chunk)
    /\ lock' = IF panic' = "none" THEN "feeder" ELSE "free"
    /\ UNCHANGED << size, pty_size, writer_rx, pty_in, text, cur, boundary, readerVars, feedVars >>

\* feed_bytes returns and the guard is dropped
FeederUnlock ==
    /\ lock = "feeder"
    /\ chunk = << >>
    /\ lock' = "free"
    /\ UNCHANGED << engineVars, writerVars, panic, text, cur, last, steps, chunk,
                    readerVars, feedVars >>
    /\ Completed

NextConc ==
    \/ \E evs \in FeedChunks : FeederLock(evs)
    \/ FeederStep
    \/ FeederUnlock
    \/ \E data \in WriteData : Write(data)
    \/ \E sz \in Sizes : Resize(sz)
    \/ AsText
    \/ Cursor

SpecConc == Init /\ [][NextConc]_vars

---------------------------------------------------------------------------
(* The reader thread and the feeder thread over the reader channel.  The   *)
(* only Sender of the channel is owned by the reader thread (it is moved    *)
(* into start_reader), so the channel is disconnected when that thread      *)
(* ends, and reader.iter() ends once a disconnected channel is empty.       *)

\* bytes of the pty output: 'a', ESC, '[', 'A'
DrainBytes == { 97, 27, 91, 65 }
DrainStreams == UNION { [1..n -> DrainBytes] : n \in 0..MaxStream }

InitDrain ==
    /\ InitEngine
    /\ InitWriter
    /\ InitReader
    /\ InitLock
    /\ InitFeed
    /\ stream \in DrainStreams

\* one iteration of for output in reader.iter(): the chunk at the front of the
\* channel is received and, unless it is empty, fed under the engine mutex; a panic
\* in feed_bytes ends the thread
FeederFeed ==
    /\ feeder_pc = "run"
    /\ reader_q # << >>
    /\ reader_q' = Tail(reader_q)
    /\ UNCHANGED << size, pty_size, writer_rx, pty_in, text, cur, last, steps, lock, chunk,
                    stream, rpos, leftover, emitted, reader_pc, input, fed >>
    /\ IF Head(reader_q) = << >>
       THEN UNCHANGED << lines, cursor_x, cursor_y, dirty, writer_q, panic, parser,
                         consumed, feeder_pc, boundary >>
       ELSE /\ LET r == feed_bytes([e |-> Engine, p |-> parser], writer_rx,
                                   Head(reader_q))
               IN Store(r.e) /\ parser' = r.p
            /\ consumed' = Append(consumed, Head(reader_q))
            /\ feeder_pc' = IF panic' = "none" THEN "run" ELSE "done"
            /\ Completed

\* reader.iter() ends: the channel is empty and its Sender has been dropped
FeederEnd ==
    /\ feeder_pc = "run"
    /\ reader_q = << >>
    /\ reader_pc = "done"
    /\ feeder_pc' = "done"
    /\ UNCHANGED << engineVars, writerVars, readerVars, lockVars, panic, text, cur, last,
                    steps, parser, input, fed, consumed >>

NextDrain ==
    \/ \E n \in 1..MaxStream : ReaderRead(n)
    \/ ReaderEof
    \/ ReaderError
    \/ FeederFeed
    \/ FeederEnd

SpecDrain == InitDrain /\ [][NextDrain]_vars

---------------------------------------------------------------------------
(* Claims *)

\* C1: in every state reached by feeding interpreter events into a fresh engine the
\* screen buffer holds at most MAX_LINES lines.
C1_LinesWithinCap == Len(lines) <= MAX_LINES

\* C2: no cursor move panics or indexes out of range, whatever was fed before, the
\* empty buffer included: CSI A/B/C/D/H/f, line feed and backspace all complete.
C2_CursorMovesComplete == panic # "index"

\* C3: after print, line feed, CSI H/f and CSI A/B/C/D the cursor row is below the
\* number of lines and the cursor column is at most the character count of the line
\* at the cursor row.
C3_CursorInsideBuffer ==
    ( /\ panic = "none"
      /\ \/ last.op = "print"
         \/ last.op = "execute" /\ last.arg = 10
         \/ last.op = "csi" /\ last.fin \in { "H", "f", "A", "B", "C", "D" } )
    => /\ cursor_y < Len(lines)
       /\ cursor_x <= CharCount(lines[cursor_y + 1])

\* the last n lines of the buffer joined by newline
LastLines(n) == Join(SubSeq(lines, Len(lines) - n + 1, Len(lines)), << 10 >>)

\* C4: as_text() returns the last min(rows, number of lines) lines joined by newline
\* when a viewport size is set, and all lines of the buffer when none was ever set.
C4_AsTextSnapshot ==
    last.op = "as_text"
    => text = IF IsSome(size) THEN LastLines(Min(size.some.rows, Len(lines)))
              ELSE LastLines(Len(lines))

\* C5: once the writer thread has ended on a failed pty write or flush, every later
\* write(data), and every cursor-position reply, returns without a panic and leaves
\* the engine usable.
C5_WriteAfterWriterEnded == ~writer_rx => panic # "send"

\* C6: MAX_LINES + 1 line feeds fed into an engine with an empty buffer leave
\* exactly MAX_LINES lines in the buffer and the cursor at row MAX_LINES - 1,
\* column 0.
C6_ScrollbackCap ==
    steps = MAX_LINES + 1
    => /\ Len(lines) = MAX_LINES
       /\ cursor_y = MAX_LINES - 1
       /\ cursor_x = 0

\* C7: CSI n without parameters enqueues exactly one payload on the writer channel,
\* ESC [ row+1 ; column+1 R for the cursor at the moment of dispatch, and changes
\* neither the buffer lines nor the cursor.
C7_CursorPositionReport ==
    [][ (steps' = steps + 1 /\ last'.op = "csi" /\ last'.fin = "n" /\ last'.params = << >>)
        => /\ writer_q' = Append(writer_q, Report(cursor_y + 1, cursor_x + 1))
           /\ lines' = lines
           /\ cursor_x' = cursor_x
           /\ cursor_y' = cursor_y
           /\ panic' = "none" ]_vars

\* C8: every as_text() snapshot and every cursor() pair is the buffer and cursor of a
\* boundary between whole feed-chunk, write and resize operations, never of a state
\* in the middle of a chunk.
C8_SnapshotsAtBoundaries ==
    /\ last.op = "as_text" => text = as_text(boundary.lines, boundary.size)
    /\ last.op = "cursor" => cur = << boundary.x, boundary.y >>

\* C8 witness: a snapshot taken after the feeder fed a chunk that printed twice.
C8_Witness ==
    /\ last.op = "as_text"
    /\ text = << 97, 97 >>
    /\ boundary.lines = << << 97, 97 >> >>
    /\ lock = "free"

\* bytes no UTF-8 text contains
NeverValid(b) == b \in { 192, 193 } \cup (245..255)

\* C9: when the pty output holds a permanently invalid byte followed by valid text,
\* the reader has emitted that text by the time it has read all of the output.
C9_TextAfterInvalidByteEmitted ==
    \A i \in 1..Len(stream) :
        LET after == SubSeq(stream, i + 1, Len(stream))
        IN ( /\ reader_pc = "done"
             /\ rpos = Len(stream)
             /\ NeverValid(stream[i])
             /\ after # << >>
             /\ IsUtf8(after) )
           => \E k \in 0..Len(Concat(emitted)) :
                 SubSeq(Concat(emitted), k + 1, Len(Concat(emitted))) = after

\* C10: after every read iteration the chunks emitted so far followed by the
\* carry-over are the bytes read so far, every chunk is valid UTF-8 and not empty,
\* and a valid stream read to its end, split into reads anywhere, has been emitted
\* whole.
C10_ReaderConservesBytes ==
    /\ Concat(emitted) \o leftover = SubSeq(stream, 1, rpos)
    /\ \A i \in 1..Len(emitted) : emitted[i] # << >> /\ IsUtf8(emitted[i])
    /\ (IsUtf8(stream) /\ rpos = Len(stream)) => Concat(emitted) = stream

\* C10 witness: a two-byte character split between two reads, emitted whole by the
\* second.
C10_Witness ==
    /\ stream = << 97, 195, 169, 97 >>
    /\ emitted = << << 97 >>, << 195, 169, 97 >> >>
    /\ leftover = << >>
    /\ rpos = 4

\* C11: a byte sequence fed in pieces, split anywhere (inside a multi-byte character
\* or inside an escape sequence), leaves the same buffer lines, cursor and outbound
\* replies, and ends in the same way, as the whole sequence fed by one feed call to
\* a fresh engine.
C11_SplitFeedEqualsWholeFeed ==
    (fed = Len(input) \/ panic # "none")
    => LET whole == feed_bytes([e |-> EngineNew, p |-> ParserNew], TRUE, input).e
       IN /\ lines = whole.lines
          /\ cursor_x = whole.x
          /\ cursor_y = whole.y
          /\ writer_q = whole.q
          /\ panic = whole.panic

\* C11 witness: 'a' and a cursor-position request fed in pieces, the last piece being
\* the final byte of the request alone; one reply is enqueued.
C11_Witness ==
    /\ input = << 97, 27, 91, 110 >>
    /\ fed = 4
    /\ last.op = "feed" /\ last.arg = 1
    /\ lines = << << 97 >> >>
    /\ writer_q = << Report(0, 1) >>

\* C12: while the writer thread is alive, whatever reaches the pty is the payload at
\* the front of the queue, written whole and removed from the queue by the same step,
\* and the queue changes in no other way than by payloads enqueued at its back:
\* payloads reach the pty in enqueue order, none lost, none duplicated.
C12_WriterFifo ==
    [][ /\ pty_in' # pty_in
           => /\ writer_q # << >>
              /\ pty_in' = Append(pty_in, Head(writer_q))
              /\ writer_q' = Tail(writer_q)
        /\ (writer_rx' /\ pty_in' = pty_in)
           => /\ Len(writer_q') >= Len(writer_q)
              /\ SubSeq(writer_q', 1, Len(writer_q)) = writer_q ]_vars

\* C12 witness: a backspace keystroke and then 'a' were written; the writer thread
\* has put DEL and then 'a' on the pty.
C12_Witness ==
    /\ writer_rx
    /\ last.op = "writer_write"
    /\ pty_in = << << 127 >>, << 97 >> >>
    /\ writer_q = << >>

\* the number of lines of a text: one more than its newlines, none when it is empty
LineCount(t) ==
    IF t = << >> THEN 0 ELSE 1 + Cardinality({ i \in 1..Len(t) : t[i] = 10 })

\* C13: a resize(cols, rows) that repeats the size already set leaves as_text() as it
\* was after the first, and every as_text() taken once a size is set has at most
\* rows lines, whatever was fed in between.
C13_ResizeIdempotentAndBounded ==
    [][ /\ (steps' = steps + 1 /\ last'.op = "resize" /\ size' = size)
           => as_text(lines', size') = as_text(lines, size)
        /\ (steps' = steps + 1 /\ last'.op = "as_text" /\ IsSome(size'))
           => LineCount(text') <= size'.some.rows ]_vars

\* C13 witness: two lines in the buffer and a viewport of one row; as_text() returned
\* the last line only.
C13_Witness ==
    /\ last.op = "as_text"
    /\ IsSome(size) /\ size.some.rows = 1
    /\ lines = << << >>, << 97 >> >>
    /\ text = << 97 >>

\* the characters of a well-formed UTF-8 string, and the string of a character
\* sequence
RECURSIVE Chars(_)
Chars(s) ==
    IF s = << >> THEN << >>
    ELSE LET w == Max(1, Utf8Width(s[1]))
         IN << Decode(SubSeq(s, 1, w)) >> \o Chars(SubSeq(s, w + 1, Len(s)))
Str(cs) == Concat([i \in 1..Len(cs) |-> Encode(cs[i])])

\* the reference for Print(c) at column x, row y: the buffer extended with empty
\* lines up to row y, the row padded with spaces up to column x, c appended when x
\* is the row's length and put in place of the character at offset x otherwise
PrintReference(ls, x, y, c) ==
    LET ext == IF y >= Len(ls) THEN ls \o [i \in 1..(y + 1 - Len(ls)) |-> << >>] ELSE ls
        row == Chars(ext[y + 1])
        padded == IF x > Len(row) THEN row \o [i \in 1..(x - Len(row)) |-> 32] ELSE row
        written == IF x = Len(padded) THEN Append(padded, c)
                   ELSE [padded EXCEPT ![x + 1] = c]
    IN [ext EXCEPT ![y + 1] = Str(written)]

\* C14: every Print(c) leaves the buffer the reference operator gives (extension with
\* empty lines, padding with spaces, append at the end of the row or replacement of
\* exactly the character at the cursor's character offset), advances the column by
\* one and leaves the row where it was.
C14_PrintMatchesReference ==
    [][ (steps' = steps + 1 /\ last'.op = "print")
        => /\ lines' = PrintReference(lines, cursor_x, cursor_y, last'.arg)
           /\ cursor_x' = cursor_x + 1
           /\ cursor_y' = cursor_y ]_vars

\* C14 witness: e-acute printed at column 0 over the first character of a row of two
\* characters; the second character is still there and the column is 1.
C14_Witness ==
    /\ last.op = "print" /\ last.arg = 233
    /\ lines = << << 195, 169, 97 >> >>
    /\ cursor_x = 1
    /\ cursor_y = 0

\* C15: after CSI 2 J, and after CSI 3 J, the buffer has zero lines, the cursor is at
\* (0,0) and as_text() is empty.
C15_EraseAllEmptiesBuffer ==
    (last.op = "csi" /\ last.fin = "J" /\ last.params \in { OneParam(2), OneParam(3) })
    => /\ lines = << >>
       /\ cursor_x = 0
       /\ cursor_y = 0
       /\ as_text(lines, size) = << >>

\* C15 witness: as_text() had shown a character before CSI 2 J emptied the buffer.
C15_Witness ==
    /\ last.op = "csi" /\ last.fin = "J" /\ last.params = OneParam(2)
    /\ text = << 97 >>
    /\ lines = << >>
    /\ cursor_x = 0

\* parameter i of a parameter text, 1 when it is missing
ParamOrOne(raw, i) ==
    IF i <= Len(raw) /\ raw[i][1] # Blank THEN raw[i][1] ELSE 1

\* C16: CSI r ; c H (or f) sets the cursor row to max(r,1)-1 and the column to
\* max(c,1)-1, a missing parameter counting as 1, and leaves the buffer lines
\* unchanged.
C16_CursorPosition ==
    [][ (steps' = steps + 1 /\ last'.op = "csi" /\ last'.fin \in { "H", "f" })
        => /\ cursor_y' = Max(ParamOrOne(last'.params, 1), 1) - 1
           /\ cursor_x' = Max(ParamOrOne(last'.params, 2), 1) - 1
           /\ lines' = lines ]_vars

\* C16 witness: CSI 5;10 H has put the cursor at row 4, column 9.
C16_Witness ==
    /\ last.op = "csi" /\ last.fin = "H" /\ last.params = TwoParams(5, 10)
    /\ cursor_y = 4
    /\ cursor_x = 9

\* C17: the dirty flag is true after every event that changes the buffer lines or the
\* cursor, and a flag that was true is false afterwards only when the step was
\* clear_dirty().
C17_DirtyTracksChanges ==
    [][ /\ (lines' # lines \/ cursor_x' # cursor_x \/ cursor_y' # cursor_y) => dirty'
        /\ (dirty /\ ~dirty') => last'.op = "clear_dirty" ]_vars

\* C18: every write(data) enqueues exactly one payload on the writer channel: DEL when
\* data is the backspace keystroke, data itself otherwise.
C18_WriteEnqueuesOnePayload ==
    [][ (steps' = steps + 1 /\ last'.op = "write")
        => writer_q' = Append(writer_q, IF last'.data = << 8 >> THEN << 127 >>
                                        ELSE last'.data) ]_vars

\* C19: a line feed sets the column to 0; when the new row would exceed the cap it
\* removes exactly the front line and the cursor row becomes the last valid index of
\* the buffer; otherwise the buffer is unchanged and the row is one more.
C19_LineFeedEvictsFront ==
    [][ (steps' = steps + 1 /\ last'.op = "execute" /\ last'.arg = 10)
        => /\ cursor_x' = 0
           /\ IF cursor_y + 1 >= MAX_LINES
              THEN /\ lines' = SubSeq(lines, 2, Len(lines))
                   /\ cursor_y' = Len(lines') - 1
              ELSE /\ lines' = lines
                   /\ cursor_y' = cursor_y + 1 ]_vars

\* C20: CSI 0 J (or CSI J) with the cursor inside the buffer keeps the rows before
\* the cursor row, keeps the first cursor_x characters of the cursor row, drops the
\* rest of that row and every row after it, and leaves the cursor unchanged.
C20_EraseBelowKeepsPrefix ==
    [][ ( /\ steps' = steps + 1
          /\ last'.op = "csi" /\ last'.fin = "J" /\ last'.params = << >>
          /\ cursor_y < Len(lines) )
        => /\ lines' = Append(SubSeq(lines, 1, cursor_y),
                              TakeChars(lines[cursor_y + 1], cursor_x))
           /\ cursor_x' = cursor_x
           /\ cursor_y' = cursor_y ]_vars

\* the mode a parameter text of Erase in Line selects
EraseMode(raw) == IF raw = << >> \/ raw[1][1] = Blank THEN 0 ELSE raw[1][1]

\* the reference for Erase in Line on a row, written on its characters
EraseLineReference(row, x, mode) ==
    LET cs == Chars(row)
    IN CASE mode = 0 -> Str(SubSeq(cs, 1, Min(x, Len(cs))))
         [] mode = 1 -> Str(SubSeq(cs, x + 1, Len(cs)))
         [] mode = 2 -> << >>
         [] OTHER -> row

\* C21: Erase in Line changes only the line at the cursor row: CSI 0 K keeps its first
\* cursor_x characters, CSI 1 K drops its characters before the cursor column, CSI 2 K
\* empties it; the number of lines, every other line and the cursor are unchanged,
\* and nothing changes at all when the cursor row is beyond the buffer.
C21_EraseInLineFrame ==
    [][ (steps' = steps + 1 /\ last'.op = "csi" /\ last'.fin = "K")
        => /\ cursor_x' = cursor_x
           /\ cursor_y' = cursor_y
           /\ Len(lines') = Len(lines)
           /\ \A i \in 1..Len(lines) :
                 lines'[i] = IF i = cursor_y + 1
                             THEN EraseLineReference(lines[i], cursor_x,
                                                     EraseMode(last'.params))
                             ELSE lines[i] ]_vars

\* C21 witness: as_text() had shown the character of the row that CSI 2 K emptied; the
\* row is still there and the cursor still at column 1.
C21_Witness ==
    /\ last.op = "csi" /\ last.fin = "K" /\ last.params = OneParam(2)
    /\ text = << 97 >>
    /\ lines = << << >> >>
    /\ cursor_x = 1
    /\ cursor_y = 0

\* the count a cursor move reads from its parameter text: max(1, param1), a missing
\* parameter counting as 1
MoveCount(raw) == Max(1, ParamOrOne(raw, 1))

\* C22: in every reachable state a horizontal move (CSI C, CSI D) completes, leaves
\* the cursor row and the buffer lines unchanged and sets the column to the old column
\* plus or minus max(1, param1), clamped into [0, character count of the current
\* line].
C22_HorizontalMove ==
    [][ (steps' = steps + 1 /\ last'.op = "csi" /\ last'.fin \in { "C", "D" })
        => /\ panic' = "none"
           /\ cursor_y' = cursor_y
           /\ lines' = lines
           /\ LET target == IF last'.fin = "C" THEN cursor_x + MoveCount(last'.params)
                            ELSE Max(0, cursor_x - MoveCount(last'.params))
                  count == IF cursor_y < Len(lines) THEN CharCount(lines[cursor_y + 1])
                           ELSE 0
              IN cursor_x' = Min(target, count) ]_vars

\* C23: a vertical move (CSI A, CSI B) completes, moves the row by max(1, param1) up or
\* down, clamps it into [0, number of lines - 1], then clamps the column into
\* [0, character count of the line at the new row], and leaves the buffer lines
\* unchanged.
C23_VerticalMove ==
    [][ (steps' = steps + 1 /\ last'.op = "csi" /\ last'.fin \in { "A", "B" })
        => /\ panic' = "none"
           /\ lines' = lines
           /\ LET target == IF last'.fin = "B" THEN cursor_y + MoveCount(last'.params)
                            ELSE Max(0, cursor_y - MoveCount(last'.params))
              IN cursor_y' = Max(0, Min(target, Len(lines) - 1))
           /\ cursor_y' < Len(lines)
           /\ cursor_x' = Min(cursor_x, CharCount(lines[cursor_y' + 1])) ]_vars

\* C24: CSI p1 ; p2 n enqueues ESC [ p1 ; p2 R, whatever the cursor position.
C24_StatusReportEchoesParameters ==
    [][ ( /\ steps' = steps + 1 /\ last'.op = "csi" /\ last'.fin = "n"
          /\ Len(last'.params) = 2 )
        => writer_q' = Append(writer_q, Report(last'.params[1][1], last'.params[2][1]))
      ]_vars

\* byte sequences the engine ignores: BEL, CSI 2 m, an operating-system command
\* ended by BEL and one ended by ESC \
IgnoredSeqs == { << 7 >>, << 27, 91, 50, 109 >>, << 27, 93, 48, 59, 97, 7 >>,
                 << 27, 93, 97, 27, 92 >> }

\* two engine states agree on buffer, cursor, outbound queue and outcome
SameEngine(a, b) ==
    /\ a.lines = b.lines
    /\ a.x = b.x
    /\ a.y = b.y
    /\ a.q = b.q
    /\ a.panic = b.panic

\* C25: an ignored control byte, CSI sequence or operating-system command fed between
\* two sequences leaves the buffer lines, the cursor and the outbound queue as they
\* were and the tokenizer in its ground state, and the bytes fed after it have the
\* effect they have without it.
C25_IgnoredSequencesHaveNoEffect ==
    (parser = ParserNew /\ panic = "none")
    => LET st == [e |-> Engine, p |-> parser]
           rest == SubSeq(input, fed + 1, Len(input))
           without == feed_bytes(st, writer_rx, rest).e
       IN \A ig \in IgnoredSeqs :
             LET after == feed_bytes(st, writer_rx, ig)
             IN /\ SameEngine(after.e, st.e)
                /\ after.p = ParserNew
                /\ SameEngine(feed_bytes(after, writer_rx, rest).e, without)

\* C25 witness: the ignored sequence ESC [ a was fed, then 'a', which was printed at
\* column 0 of row 0 as it is on a fresh engine.
C25_Witness ==
    /\ input = << 27, 91, 97, 97 >>
    /\ fed = 4
    /\ parser = ParserNew
    /\ lines = << << 97 >> >>
    /\ cursor_x = 1
    /\ cursor_y = 0
    /\ writer_q = << >>

\* C26: when the reader thread has ended and the feeder thread has ended after it,
\* the chunks the feeder fed are the chunks the reader emitted, in the same order,
\* none skipped.
C26_FeederDrainsQueue ==
    (reader_pc = "done" /\ feeder_pc = "done") => consumed = emitted

\* C27: payloads reach the outbound queue in the order in which their operations held
\* the engine lock: every enqueue appends one payload at the back of the queue, the
\* payloads enqueued while the feeder holds the lock are replies of the chunk it is
\* feeding, and a write() payload is enqueued only while no chunk is being fed.
C27_RepliesAndWritesInLockOrder ==
    [][ writer_q' # writer_q
        => /\ Len(writer_q') = Len(writer_q) + 1
           /\ SubSeq(writer_q', 1, Len(writer_q)) = writer_q
           /\ lock = "feeder" => (last'.op = "csi" /\ last'.fin = "n")
           /\ last'.op = "write" => (lock = "free" /\ chunk = << >>) ]_vars

\* C27 witness: a chunk of two cursor-position requests was fed, then write("a") took
\* the lock; both replies are ahead of the write's payload.
C27_Witness ==
    /\ last.op = "write"
    /\ lock = "free"
    /\ writer_q = << Report(0, 1), Report(0, 1), << 97 >> >>

=============================================================================
